---- MODULE Spec2Model ----
(***************************************************************************)
(* Model of the social-media-pulse extraction and cleaning code:           *)
(*   src/etl/extract_reddit.py   fetch_ai_posts_by_scanning_feed,          *)
(*                               flatten_comments_tree,                    *)
(*                               fetch_comments_for_posts                  *)
(*   src/etl/transform_clean.py  clean_text                                *)
(*   src/analysis/sentiment.py   clean_text                                *)
(* Each function has its own specification (SpecScan, SpecFlatten,         *)
(* SpecFetch, SpecClean) over the shared variables; the variables of the   *)
(* functions a specification does not run keep their idle values.          *)
(***************************************************************************)
EXTENDS Integers, Sequences, FiniteSets, TLC

VARIABLES
    \* fetch_ai_posts_by_scanning_feed
    keywords, max_posts, collected, after, scan_pc, scan_pages, scan_log,
    \* flatten_comments_tree
    arena, comments_data, flattened, flat_pc,
    \* fetch_comments_for_posts
    posts, max_comments_per_post, max_posts_with_comments, idx, all_comments,
    fetch_pc, responses, fetch_log,
    \* clean_text (both implementations)
    text, cleaned, previous, calls, impl

scanVars  == <<keywords, max_posts, collected, after, scan_pc, scan_pages, scan_log>>
flatVars  == <<arena, comments_data, flattened, flat_pc>>
fetchVars == <<posts, max_comments_per_post, max_posts_with_comments, idx,
               all_comments, fetch_pc, responses, fetch_log>>
cleanVars == <<text, cleaned, previous, calls, impl>>
vars      == <<scanVars, flatVars, fetchVars, cleanVars>>

----------------------------------------------------------------------------
(* Bounds of the model.                                                    *)

\* nodes of a comments tree handed to flatten_comments_tree in SpecFlatten
MaxNodes == 4
\* nodes of a comments tree in one response of the comments endpoint
MaxRespNodes == 2
\* posts handed to fetch_comments_for_posts, and largest
\* max_posts_with_comments tried
MaxPostList == 3
\* largest max_comments_per_post tried (the smallest is 1)
MaxCap == 2
\* page requests the feed answers before the model stops looking
MaxPages == 3
\* items on one page of the feed
MaxPageItems == 2
\* largest max_posts tried
MaxTarget == 3
\* fragments concatenated into one input text of clean_text
MaxFrags == 4

----------------------------------------------------------------------------
(* Generic helpers.                                                        *)

Min(S) == CHOOSE x \in S : \A y \in S : x <= y

RECURSIVE SortedSeq(_)
SortedSeq(S) == IF S = {} THEN <<>>
                ELSE <<Min(S)>> \o SortedSeq(S \ {Min(S)})

\* Python's s[:n] for n >= 0
Take(s, n) == SubSeq(s, 1, IF n < Len(s) THEN n ELSE Len(s))

\* str.lower() on ASCII
UpperCase == <<"A", "B", "C", "D", "E", "F", "G", "H", "I", "J", "K", "L", "M",
               "N", "O", "P", "Q", "R", "S", "T", "U", "V", "W", "X", "Y", "Z">>
LowerCase == <<"a", "b", "c", "d", "e", "f", "g", "h", "i", "j", "k", "l", "m",
               "n", "o", "p", "q", "r", "s", "t", "u", "v", "w", "x", "y", "z">>
Lower(c) == IF \E i \in 1..Len(UpperCase) : UpperCase[i] = c
               THEN LowerCase[CHOOSE i \in 1..Len(UpperCase) : UpperCase[i] = c]
               ELSE c
LowerStr(str) == [i \in 1..Len(str) |-> Lower(str[i])]

\* Python's `kw in text` on strings
IsSubstring(kw, str) ==
    \E i \in 0..(Len(str) - Len(kw)) : SubSeq(str, i + 1, i + Len(kw)) = kw

----------------------------------------------------------------------------
(* Comment trees, src/etl/extract_reddit.py:99-134.                        *)
(* A tree of the comments endpoint is drawn as an arena: nodes 1..n,       *)
(* parent[i] < i the node i is nested under (0 = top level), siblings in   *)
(* index order.  NodeOf builds the nested JSON value from it, well-formed: *)
(* a node's parent_id names the node it is nested under, a top-level       *)
(* node's names the post.                                                  *)

CommentIdNames == <<"c1", "c2", "c3", "c4", "c5", "c6", "c7", "c8">>
PostIdNames    == <<"p1", "p2", "p3", "p4", "p5", "p6">>
Kinds          == {"t1", "more"}

\* the ways n nodes nest: parent[i] < i
ParentMaps(n) == {f \in [1..n -> 0..(n-1)] : \A i \in 1..n : f[i] < i}

Arenas(N, pid) ==
    UNION { { [post_id |-> pid, n |-> n, parent |-> par, kind |-> k, leaf_dict |-> ld] :
                par \in ParentMaps(n),
                k \in [1..n -> Kinds],
                ld \in [1..n -> BOOLEAN] } : n \in 0..N }

Kids(a, p) == SortedSeq({i \in 1..a.n : a.parent[i] = p})

\* "replies" is "" for a comment without replies, else a Listing dict
NoReplies == [type |-> "str", children |-> <<>>]
Listing(children) == [type |-> "dict", children |-> children]

RECURSIVE NodeOf(_, _)
NodeOf(a, i) ==
    LET kids == Kids(a, i)
    IN [kind |-> a.kind[i],
        data |-> [id        |-> CommentIdNames[i],
                  parent_id |-> IF a.parent[i] = 0
                                   THEN <<"t3", a.post_id>>
                                   ELSE <<"t1", CommentIdNames[a.parent[i]]>>,
                  replies   |-> IF kids = <<>> /\ ~a.leaf_dict[i]
                                   THEN NoReplies
                                   ELSE Listing([k \in 1..Len(kids) |-> NodeOf(a, kids[k])])]]

TreeOf(a) == LET kids == Kids(a, 0) IN [k \in 1..Len(kids) |-> NodeOf(a, kids[k])]

\* the record flatten_comments_tree appends for a node (author, body, score
\* and created_utc are copied verbatim like comment_id and are left out)
CommentRecord(node, post_id) ==
    [post_id    |-> post_id,
     comment_id |-> node.data.id,
     parent_id  |-> node.data.parent_id]

RECURSIVE _walk(_, _, _)

\* seeded fault: walks the replies before appending the node itself
WalkRepliesFirst(node_list, post_id, acc) ==
    IF node_list = <<>> THEN acc
    ELSE LET node == Head(node_list)
         IN IF node.kind # "t1"
               THEN _walk(Tail(node_list), post_id, acc)
               ELSE LET below == IF node.data.replies.type = "dict"
                                    THEN _walk(node.data.replies.children, post_id, acc)
                                    ELSE acc
                    IN _walk(Tail(node_list), post_id,
                             Append(below, CommentRecord(node, post_id)))

\* seeded fault: descends below a node that is no comment
WalkBelowAnyKind(node_list, post_id, acc) ==
    IF node_list = <<>> THEN acc
    ELSE LET node == Head(node_list)
             here == IF node.kind # "t1" THEN acc
                     ELSE Append(acc, CommentRecord(node, post_id))
             below == IF node.data.replies.type = "dict"
                         THEN _walk(node.data.replies.children, post_id, here)
                         ELSE here
         IN _walk(Tail(node_list), post_id, below)

\* _walk(node_list) with the enclosing `flattened` list passed as acc
_walk(node_list, post_id, acc) ==
    IF node_list = <<>> THEN acc
    ELSE LET node == Head(node_list)
         IN IF node.kind # "t1"
               THEN _walk(Tail(node_list), post_id, acc)
               ELSE LET here  == Append(acc, CommentRecord(node, post_id))
                        below == IF node.data.replies.type = "dict"
                                    THEN _walk(node.data.replies.children, post_id, here)
                                    ELSE here
                    IN _walk(Tail(node_list), post_id, below)

flatten_comments_tree(cdata, post_id) == _walk(cdata, post_id, <<>>)

----------------------------------------------------------------------------
(* Idle values of each function's variables.                               *)

NoCursor   == ""
NoArena    == [post_id |-> "", n |-> 0, parent |-> <<>>, kind |-> <<>>, leaf_dict |-> <<>>]

ScanIdle ==
    /\ keywords = <<>> /\ max_posts = 0 /\ collected = <<>> /\ after = NoCursor
    /\ scan_pc = "idle" /\ scan_pages = <<>> /\ scan_log = <<>>

FlatIdle ==
    /\ arena = NoArena /\ comments_data = <<>> /\ flattened = <<>> /\ flat_pc = "idle"

FetchIdle ==
    /\ posts = <<>> /\ max_comments_per_post = 0 /\ max_posts_with_comments = 0
    /\ idx = 0 /\ all_comments = <<>> /\ fetch_pc = "idle" /\ responses = <<>>
    /\ fetch_log = <<>>

CleanIdle ==
    /\ text = [type |-> "NoneType", val |-> <<>>] /\ cleaned = <<>> /\ previous = <<>>
    /\ calls = 0 /\ impl = "idle"

----------------------------------------------------------------------------
(* SpecFlatten: one call of flatten_comments_tree on a well-formed tree.   *)

FlattenInit ==
    /\ \E n \in 0..MaxNodes : \E par \in ParentMaps(n) :
           \E k \in [1..n -> Kinds] : \E ld \in [1..n -> BOOLEAN] :
               arena = [post_id |-> "p1", n |-> n, parent |-> par, kind |-> k,
                        leaf_dict |-> ld]
    /\ comments_data = TreeOf(arena)
    /\ flattened = <<>>
    /\ flat_pc = "call"

FlattenCall ==
    /\ flat_pc = "call"
    /\ flattened' = flatten_comments_tree(comments_data, arena.post_id)
    /\ flat_pc' = "return"
    /\ UNCHANGED <<arena, comments_data, scanVars, fetchVars, cleanVars>>

InitFlatten == FlattenInit /\ ScanIdle /\ FetchIdle /\ CleanIdle
NextFlatten == FlattenCall
SpecFlatten == InitFlatten /\ [][NextFlatten]_vars

\* node i is a comment and so is every node it is nested under
RECURSIVE CommentChain(_, _)
CommentChain(a, i) ==
    i = 0 \/ (a.kind[i] = "t1" /\ CommentChain(a, a.parent[i]))

\* C4: every record flatten_comments_tree returns for a well-formed tree has
\* a parent_id that names the owning post or the comment_id of a record
\* strictly earlier in the returned sequence.
ParentBeforeChild ==
    flat_pc = "return" =>
        \A k \in 1..Len(flattened) :
            \/ flattened[k].parent_id = <<"t3", arena.post_id>>
            \/ \E j \in 1..(k-1) :
                   flattened[k].parent_id = <<"t1", flattened[j].comment_id>>

\* a reply nested two levels deep was flattened
ParentBeforeChildWitness ==
    /\ flat_pc = "return"
    /\ \E k \in 1..Len(flattened) : \E j \in 1..(k-1) : \E h \in 1..(j-1) :
           /\ flattened[k].parent_id = <<"t1", flattened[j].comment_id>>
           /\ flattened[j].parent_id = <<"t1", flattened[h].comment_id>>

\* C7: flatten_comments_tree returns one record for each comment-kind node
\* that is reached through comment-kind ancestors only, and none for any
\* other node: nothing for a node of another kind, nothing for what is
\* nested below it, hence nothing at all for a tree of such nodes.
OnlyCommentChains ==
    flat_pc = "return" =>
        /\ Len(flattened) = Cardinality({i \in 1..arena.n : CommentChain(arena, i)})
        /\ \A i \in 1..arena.n :
               CommentChain(arena, i) <=>
                   \E k \in 1..Len(flattened) : flattened[k].comment_id = CommentIdNames[i]
        /\ (\A i \in 1..arena.n : arena.kind[i] # "t1") => flattened = <<>>

\* a comment nested below a node of another kind was left out, next to a
\* comment that was kept
OnlyCommentChainsWitness ==
    /\ flat_pc = "return"
    /\ flattened # <<>>
    /\ \E i \in 1..arena.n :
           /\ arena.kind[i] = "t1"
           /\ arena.parent[i] # 0
           /\ arena.kind[arena.parent[i]] # "t1"

----------------------------------------------------------------------------
(* SpecFetch: fetch_comments_for_posts, src/etl/extract_reddit.py:139-197. *)
(* One action per way an iteration of the for loop can go; the answer of   *)
(* the comments endpoint is drawn when the request is made and kept in     *)
(* responses[idx]; fetch_log records the requests.get and time.sleep calls *)
(* in the order they happen.                                               *)

NoCommentResp == [status |-> 0, type |-> "none", len |-> 0, children |-> <<>>]

\* trees the comments endpoint answers with: comments, nested or not, and
\* possibly one closing "more" placeholder, which has nothing nested under
\* it; a node without replies carries replies = ""
RespArenas(pid) ==
    {b \in Arenas(MaxRespNodes, pid) :
        \A i \in 1..b.n : /\ ~b.leaf_dict[i]
                          /\ b.kind[i] # "t1" => i = b.n}

\* status and resp.json(): a list whose second element is the comments
\* listing, a list that is too short, or a value that is no list
CommentResponses(pid) ==
    {[status |-> 429, type |-> "dict", len |-> 0, children |-> <<>>],
     [status |-> 500, type |-> "dict", len |-> 0, children |-> <<>>],
     [status |-> 200, type |-> "dict", len |-> 0, children |-> <<>>],
     [status |-> 200, type |-> "list", len |-> 1, children |-> <<>>]}
    \cup {[status |-> 200, type |-> "list", len |-> 2, children |-> TreeOf(a)] :
             a \in RespArenas(pid)}

\* the answers each post can get, by post id
ResponsesOf == [pid \in {PostIdNames[j] : j \in 1..MaxPostList} |-> CommentResponses(pid)]

PostLists ==
    UNION {{[j \in 1..n |-> [id |-> IF j \in E THEN "" ELSE PostIdNames[j]]] :
               E \in SUBSET (1..n)} : n \in 0..MaxPostList}

FetchInit ==
    /\ posts \in PostLists
    /\ max_comments_per_post \in 1..MaxCap
    /\ max_posts_with_comments \in 0..MaxPostList
    /\ idx = 1
    /\ all_comments = <<>>
    /\ fetch_pc = "loop"
    /\ responses = [j \in 1..Len(posts) |-> NoCommentResp]
    /\ fetch_log = <<>>

posts_subset == Take(posts, max_posts_with_comments)
total == Len(posts_subset)

\* seeded fault: no cap
NoHardCap(flat, cap) == flat

\* the hard cap per post, lines 186-188
HardCap(flat, cap) == IF Len(flat) > cap THEN Take(flat, cap) ELSE flat

\* lines 157-160: the loop is at a post that has an id
Requesting ==
    /\ fetch_pc = "loop"
    /\ idx <= total
    /\ posts_subset[idx].id # ""

\* line 170: the request for the post at idx is made and answered with resp
Request(resp) ==
    /\ responses' = [responses EXCEPT ![idx] = resp]
    /\ fetch_log' = Append(fetch_log, "get")

UnexpectedStructure(resp) == resp.type # "list" \/ resp.len < 2

\* line 157: the for loop moves to the next post, or ends after the last one
\* and the function returns (lines 196-197)
NextPost ==
    /\ idx' = idx + 1
    /\ fetch_pc' = IF idx + 1 > total THEN "done" ELSE "loop"

\* lines 158-160: a post without id is passed over
FetchNoId ==
    /\ fetch_pc = "loop"
    /\ idx <= total
    /\ posts_subset[idx].id = ""
    /\ NextPost
    /\ UNCHANGED <<posts, max_comments_per_post, max_posts_with_comments, all_comments,
                   responses, fetch_log, scanVars, flatVars, cleanVars>>

\* seeded fault: a 429 is passed over like any other failure
FetchRateLimitedGoesOn ==
    /\ Requesting
    /\ \E resp \in ResponsesOf[posts_subset[idx].id] :
        /\ Request(resp)
        /\ resp.status = 429
        /\ NextPost
        /\ UNCHANGED <<posts, max_comments_per_post, max_posts_with_comments,
                       all_comments, scanVars, flatVars, cleanVars>>

\* lines 171-173: 429 breaks out of the loop
FetchRateLimited ==
    /\ Requesting
    /\ \E resp \in ResponsesOf[posts_subset[idx].id] :
        /\ Request(resp)
        /\ resp.status = 429
        /\ fetch_pc' = "done"
        /\ UNCHANGED <<posts, max_comments_per_post, max_posts_with_comments, idx,
                       all_comments, scanVars, flatVars, cleanVars>>

\* seeded fault: any failure breaks out of the loop
FetchFailedStops ==
    /\ Requesting
    /\ \E resp \in ResponsesOf[posts_subset[idx].id] :
        /\ Request(resp)
        /\ resp.status # 429 /\ resp.status # 200
        /\ fetch_pc' = "done"
        /\ UNCHANGED <<posts, max_comments_per_post, max_posts_with_comments, idx,
                       all_comments, scanVars, flatVars, cleanVars>>

\* lines 174-176: another status than 200 moves on to the next post
FetchFailed ==
    /\ Requesting
    /\ \E resp \in ResponsesOf[posts_subset[idx].id] :
        /\ Request(resp)
        /\ resp.status # 429 /\ resp.status # 200
        /\ NextPost
        /\ UNCHANGED <<posts, max_comments_per_post, max_posts_with_comments,
                       all_comments, scanVars, flatVars, cleanVars>>

\* lines 178-181: a payload of the wrong shape moves on to the next post
FetchUnexpected ==
    /\ Requesting
    /\ \E resp \in ResponsesOf[posts_subset[idx].id] :
        /\ Request(resp)
        /\ resp.status = 200
        /\ UnexpectedStructure(resp)
        /\ NextPost
        /\ UNCHANGED <<posts, max_comments_per_post, max_posts_with_comments,
                       all_comments, scanVars, flatVars, cleanVars>>

\* lines 183-194: flatten, cap, extend, then time.sleep(1) and the next post
FetchOk ==
    /\ Requesting
    /\ \E resp \in ResponsesOf[posts_subset[idx].id] :
        /\ resp.status = 200
        /\ ~UnexpectedStructure(resp)
        /\ responses' = [responses EXCEPT ![idx] = resp]
        /\ LET flat == flatten_comments_tree(resp.children, posts_subset[idx].id)
           IN all_comments' = all_comments \o HardCap(flat, max_comments_per_post)
        /\ fetch_log' = fetch_log \o <<"get", "sleep">>
        /\ NextPost
        /\ UNCHANGED <<posts, max_comments_per_post, max_posts_with_comments,
                       scanVars, flatVars, cleanVars>>

\* lines 157, 196-197: there is no post to loop over
FetchReturn ==
    /\ fetch_pc = "loop"
    /\ idx > total
    /\ fetch_pc' = "done"
    /\ UNCHANGED <<posts, max_comments_per_post, max_posts_with_comments, idx,
                   all_comments, responses, fetch_log, scanVars, flatVars, cleanVars>>

InitFetch == FetchInit /\ ScanIdle /\ FlatIdle /\ CleanIdle
NextFetch ==
    \/ FetchNoId
    \/ FetchRateLimited
    \/ FetchFailed
    \/ FetchUnexpected
    \/ FetchOk
    \/ FetchReturn
SpecFetch == InitFetch /\ [][NextFetch]_vars

(* What the claims about fetch_comments_for_posts speak of.                *)

\* answered with 200 and a payload of the expected shape
OkAnswer(r) == r.status = 200 /\ r.type = "list" /\ r.len >= 2

\* requested, and passed over for a failure other than 429 or a wrong shape
Skipped(k) ==
    /\ responses[k].status # 0
    /\ responses[k].status # 429
    /\ ~OkAnswer(responses[k])

\* the first max_comments_per_post records of the flattened answer to post j
Kept(j) ==
    IF OkAnswer(responses[j])
       THEN Take(flatten_comments_tree(responses[j].children, posts[j].id),
                 max_comments_per_post)
       ELSE <<>>

RECURSIVE Accumulated(_)
Accumulated(m) == IF m = 0 THEN <<>> ELSE Accumulated(m - 1) \o Kept(m)

CommentsOf(pid) == LET Mine(c) == c.post_id = pid IN SelectSeq(all_comments, Mine)

\* C1: once the request of the post at position k is answered 429, the
\* function is done, no post after k has been requested, and the result is
\* exactly what the posts before k contributed: comments of posts 1..k-1 only.
RateLimitStops ==
    \A k \in 1..Len(posts) :
        responses[k].status = 429 =>
            /\ fetch_pc = "done"
            /\ \A j \in (k+1)..Len(posts) : responses[j].status = 0
            /\ all_comments = Accumulated(k - 1)
            /\ \A n \in 1..Len(all_comments) :
                   \E j \in 1..(k-1) : all_comments[n].post_id = posts[j].id

\* a 429 after comments were collected, with a post left that has an id
RateLimitStopsWitness ==
    \E k \in 1..Len(posts) :
        /\ responses[k].status = 429
        /\ all_comments # <<>>
        /\ \E j \in (k+1)..total : posts[j].id # ""

\* C3: the result never holds more than max_comments_per_post comments of
\* one post, and what it holds of a post are the first
\* max_comments_per_post records of the flattened answer.
PerPostCap ==
    \A j \in 1..Len(posts) :
        posts[j].id # "" =>
            /\ Len(CommentsOf(posts[j].id)) <= max_comments_per_post
            /\ CommentsOf(posts[j].id) = Kept(j)

\* an answer with more comments than the cap, nested ones among them, was cut
PerPostCapWitness ==
    \E j \in 1..Len(posts) :
        /\ OkAnswer(responses[j])
        /\ LET flat == flatten_comments_tree(responses[j].children, posts[j].id)
           IN /\ Len(flat) > max_comments_per_post
              /\ \E n \in 1..Len(flat) : flat[n].parent_id[1] = "t1"
        /\ Len(CommentsOf(posts[j].id)) = max_comments_per_post

\* C9 as claimed: no comments request directly follows another request
\* without a delay in between.
DelayBetweenRequests ==
    \A n \in 1..(Len(fetch_log) - 1) :
        ~(fetch_log[n] = "get" /\ fetch_log[n+1] = "get")

\* C10 as claimed: after a post was passed over, every later post among the
\* first max_posts_with_comments that has an id gets its request.
SkipThenEveryLaterPostRequested ==
    fetch_pc = "done" =>
        \A k \in 1..total :
            Skipped(k) =>
                \A j \in (k+1)..total : posts[j].id # "" => responses[j].status # 0

\* C10 as amended: a post that is passed over contributes nothing and leaves
\* the result as it was, the result lists the kept comments in post order
\* and within a post in flatten order, and every later post among the first
\* max_posts_with_comments that has an id gets its request unless a request
\* in between was answered 429.
SkipGoesOn ==
    /\ all_comments = Accumulated(Len(posts))
    /\ \A k \in 1..Len(posts) : Skipped(k) => CommentsOf(posts[k].id) = <<>>
    /\ fetch_pc = "done" =>
           \A k \in 1..total :
               Skipped(k) =>
                   \A j \in (k+1)..total :
                       (/\ posts[j].id # ""
                        /\ \A h \in (k+1)..(j-1) : responses[h].status # 429)
                           => responses[j].status # 0

\* comments kept, then a post passed over, then comments kept again
SkipGoesOnWitness ==
    /\ fetch_pc = "done"
    /\ \E g \in 1..total : \E k \in (g+1)..total : \E j \in (k+1)..total :
           /\ Kept(g) # <<>>
           /\ Skipped(k)
           /\ Kept(j) # <<>>

----------------------------------------------------------------------------
(* SpecScan: fetch_ai_posts_by_scanning_feed,                              *)
(* src/etl/extract_reddit.py:20-96.  scan_pages keeps the answers of the   *)
(* listing endpoint in the order they came, scan_log the requests.get and  *)
(* time.sleep calls in the order they happen.                              *)

Cursors == {NoCursor, "t3_next"}

\* the keywords argument, and two items of the feed: one that holds a keyword
\* in its selftext, in another case, and one that holds none
KeywordsArg == << <<"a", "i">>, <<"G", "P", "T">> >>
ItemHit     == [title |-> <<"C", "a", "t">>, selftext |-> <<"G", "p", "T">>]
ItemMiss    == [title |-> <<"D", "o", "g">>, selftext |-> <<>>]

\* the children a page can hold; the id of an item tells page and place
PageChildren(page) ==
    UNION {{[k \in 1..m |-> [id |-> <<page, k>>, title |-> it[k].title,
                             selftext |-> it[k].selftext]] :
               it \in [1..m -> {ItemHit, ItemMiss}]} : m \in 0..MaxPageItems}

\* status, data.children and data.after of the answer to a page request
PageResponses(page) ==
    {[status |-> 500, children |-> <<>>, after |-> NoCursor]}
    \cup {[status |-> 200, children |-> ch, after |-> c] :
             ch \in PageChildren(page), c \in Cursors}

PagesOf == [page \in 1..MaxPages |-> PageResponses(page)]

\* lines 62-66: the keyword test on title + " " + selftext, lowercased
Matches(d, kws) ==
    LET str == LowerStr(d.title \o <<" ">> \o d.selftext)
    IN \E i \in 1..Len(kws) : IsSubstring(kws[i], str)

\* lines 67-82: the post kept for a matching item (the fields copied
\* verbatim from the item are left out but for id and title)
PostOf(d) == [id |-> d.id, title |-> d.title]

RECURSIVE CollectFrom(_, _, _, _)

\* seeded fault: the inner loop does not stop at max_posts
CollectWholePage(children, acc, kws, target) ==
    IF children = <<>> THEN acc
    ELSE CollectFrom(Tail(children),
                     IF Matches(Head(children), kws)
                        THEN Append(acc, PostOf(Head(children))) ELSE acc,
                     kws, target)

\* lines 60-85: the for loop over the children of a page
CollectFrom(children, acc, kws, target) ==
    IF children = <<>> THEN acc
    ELSE IF Matches(Head(children), kws)
            THEN LET more == Append(acc, PostOf(Head(children)))
                 IN IF Len(more) >= target THEN more
                    ELSE CollectFrom(Tail(children), more, kws, target)
            ELSE CollectFrom(Tail(children), acc, kws, target)

Gets(log) == Cardinality({n \in 1..Len(log) : log[n] = "get"})

ScanInit ==
    /\ keywords = [i \in 1..Len(KeywordsArg) |-> LowerStr(KeywordsArg[i])]
    /\ max_posts \in 0..MaxTarget
    /\ collected = <<>>
    /\ after = NoCursor
    /\ scan_pc = "while"
    /\ scan_pages = <<>>
    /\ scan_log = <<>>

\* lines 43-47: the loop condition holds and the next page is requested
PageRequest(resp) ==
    /\ scan_pages' = Append(scan_pages, resp)
    /\ scan_log' = Append(scan_log, "get")

Looping ==
    /\ scan_pc = "while"
    /\ Len(collected) < max_posts
    /\ Gets(scan_log) < MaxPages

\* lines 43, 95-96: the loop condition fails
ScanDone ==
    /\ scan_pc = "while"
    /\ Len(collected) >= max_posts
    /\ scan_pc' = "done"
    /\ UNCHANGED <<keywords, max_posts, collected, after, scan_pages, scan_log,
                   flatVars, fetchVars, cleanVars>>

\* lines 48-50: a status other than 200 ends the scan
ScanFailed ==
    /\ Looping
    /\ \E resp \in PagesOf[Gets(scan_log) + 1] :
        /\ resp.status # 200
        /\ PageRequest(resp)
        /\ scan_pc' = "done"
        /\ UNCHANGED <<keywords, max_posts, collected, after,
                       flatVars, fetchVars, cleanVars>>

\* lines 52-58: a page without children ends the scan
ScanNoChildren ==
    /\ Looping
    /\ \E resp \in PagesOf[Gets(scan_log) + 1] :
        /\ resp.status = 200
        /\ resp.children = <<>>
        /\ PageRequest(resp)
        /\ after' = resp.after
        /\ scan_pc' = "done"
        /\ UNCHANGED <<keywords, max_posts, collected, flatVars, fetchVars, cleanVars>>

\* seeded fault: a page without cursor does not end the scan
ScanLastPageGoesOn ==
    /\ Looping
    /\ \E resp \in PagesOf[Gets(scan_log) + 1] :
        /\ resp.status = 200
        /\ resp.children # <<>>
        /\ resp.after = NoCursor
        /\ PageRequest(resp)
        /\ after' = resp.after
        /\ collected' = CollectFrom(resp.children, collected, keywords, max_posts)
        /\ scan_pc' = "sleep"
        /\ UNCHANGED <<keywords, max_posts, flatVars, fetchVars, cleanVars>>

\* lines 52-91: the matches of a page without cursor are kept, and the
\* scan ends
ScanLastPage ==
    /\ Looping
    /\ \E resp \in PagesOf[Gets(scan_log) + 1] :
        /\ resp.status = 200
        /\ resp.children # <<>>
        /\ resp.after = NoCursor
        /\ PageRequest(resp)
        /\ after' = resp.after
        /\ collected' = CollectFrom(resp.children, collected, keywords, max_posts)
        /\ scan_pc' = "done"
        /\ UNCHANGED <<keywords, max_posts, flatVars, fetchVars, cleanVars>>

\* lines 52-93: the matches of a page with a cursor are kept, and the
\* function goes to sleep
ScanPage ==
    /\ Looping
    /\ \E resp \in PagesOf[Gets(scan_log) + 1] :
        /\ resp.status = 200
        /\ resp.children # <<>>
        /\ resp.after # NoCursor
        /\ PageRequest(resp)
        /\ after' = resp.after
        /\ collected' = CollectFrom(resp.children, collected, keywords, max_posts)
        /\ scan_pc' = "sleep"
        /\ UNCHANGED <<keywords, max_posts, flatVars, fetchVars, cleanVars>>

\* line 93: time.sleep(2), then back to the loop condition
ScanSleep ==
    /\ scan_pc = "sleep"
    /\ scan_log' = Append(scan_log, "sleep")
    /\ scan_pc' = "while"
    /\ UNCHANGED <<keywords, max_posts, collected, after, scan_pages,
                   flatVars, fetchVars, cleanVars>>

InitScan == ScanInit /\ FlatIdle /\ FetchIdle /\ CleanIdle
NextScan ==
    \/ ScanDone
    \/ ScanFailed
    \/ ScanNoChildren
    \/ ScanLastPage
    \/ ScanPage
    \/ ScanSleep
SpecScan == InitScan /\ [][NextScan]_vars

(* What the claims about fetch_ai_posts_by_scanning_feed speak of.         *)

\* a non-empty page of matching items that carries a continuation cursor
Rich(r) ==
    /\ r.status = 200
    /\ r.children # <<>>
    /\ \A k \in 1..Len(r.children) : Matches(r.children[k], keywords)
    /\ r.after # NoCursor

\* a page that ends the feed: no continuation cursor, or no items
EndOfFeed(r) == r.status = 200 /\ (r.after = NoCursor \/ r.children = <<>>)

\* the posts of the matching items of pages 1..n, in feed order
RECURSIVE AllMatches(_)
AllMatches(n) ==
    IF n = 0 THEN <<>>
    ELSE LET Hit(d) == Matches(d, keywords)
             hits == SelectSeq(scan_pages[n].children, Hit)
         IN AllMatches(n - 1) \o [k \in 1..Len(hits) |-> PostOf(hits[k])]

\* C2: the function never holds more than max_posts posts; when every page
\* was a non-empty page of matching items with a cursor it returns exactly
\* max_posts posts; and once max_posts is reached no page is requested.
AtMostMaxPosts ==
    /\ [](Len(collected) <= max_posts)
    /\ []((scan_pc = "done" /\ \A n \in 1..Len(scan_pages) : Rich(scan_pages[n]))
             => Len(collected) = max_posts)
    /\ [][Len(collected) >= max_posts => scan_pages' = scan_pages]_vars

\* the feed held more matching items than asked for, on pages that all had
\* a cursor, and the function returned max_posts of them
AtMostMaxPostsWitness ==
    /\ scan_pc = "done"
    /\ Len(scan_pages) >= 2
    /\ \A n \in 1..Len(scan_pages) : Rich(scan_pages[n])
    /\ Len(AllMatches(Len(scan_pages))) > max_posts
    /\ Len(collected) = max_posts

\* C5: a page without continuation cursor, or without items, is the last
\* page requested: the function is done, and returns the matches of all
\* pages up to and including that one (fewer than max_posts when the feed
\* held fewer).
EndOfFeedReturns ==
    \A n \in 1..Len(scan_pages) :
        EndOfFeed(scan_pages[n]) =>
            /\ n = Len(scan_pages)
            /\ scan_pc = "done"
            /\ collected = Take(AllMatches(n), max_posts)
            /\ Len(AllMatches(n)) < max_posts => collected = AllMatches(n)

\* the cursor chain ended on the second page or later, that page held a
\* match, and fewer than max_posts posts are returned
EndOfFeedReturnsWitness ==
    /\ scan_pc = "done"
    /\ Len(scan_pages) >= 2
    /\ LET last == scan_pages[Len(scan_pages)]
       IN /\ last.status = 200 /\ last.after = NoCursor
          /\ \E k \in 1..Len(last.children) : Matches(last.children[k], keywords)
    /\ collected # <<>>
    /\ Len(collected) < max_posts

\* C8 as claimed: every page request after the first directly follows one
\* delay, every delay directly follows a page request, and when the function
\* returns the last thing it did was a page request, not a delay.
DelayOnlyBetweenPages ==
    /\ \A n \in 2..Len(scan_log) :
           /\ scan_log[n] = "get" => scan_log[n-1] = "sleep"
           /\ scan_log[n] = "sleep" => scan_log[n-1] = "get"
    /\ (scan_pc = "done" /\ scan_log # <<>>) => scan_log[Len(scan_log)] = "get"

----------------------------------------------------------------------------
(* SpecClean: clean_text of src/etl/transform_clean.py:13-26 and           *)
(* clean_text of src/analysis/sentiment.py:21-39, on texts made of         *)
(* fragments that the patterns of the two functions tell apart.  A text is *)
(* a sequence of characters; the function is called on the input and then  *)
(* on its own result.                                                      *)

Digits     == {"0", "1", "2", "3", "4", "5", "6", "7", "8", "9"}
LowerChars == {LowerCase[i] : i \in 1..Len(LowerCase)}
UpperChars == {UpperCase[i] : i \in 1..Len(UpperCase)}

\* \s and \S
IsSpace(c) == c \in {" ", "\t", "\n", "\r", "\f"}

\* str.strip()
RECURSIVE LStrip(_)
LStrip(str) == IF str # <<>> /\ IsSpace(Head(str)) THEN LStrip(Tail(str)) ELSE str
RECURSIVE RStrip(_)
RStrip(str) == IF str # <<>> /\ IsSpace(str[Len(str)])
                  THEN RStrip(SubSeq(str, 1, Len(str) - 1)) ELSE str
Strip(str) == RStrip(LStrip(str))

\* whether the literal lit stands in str at place i
LiteralAt(str, i, lit) ==
    /\ i + Len(lit) - 1 <= Len(str)
    /\ SubSeq(str, i, i + Len(lit) - 1) = lit

\* the end of the run \S+ matches from place i on; i - 1 when there is none
RECURSIVE NonSpaceRun(_, _)
NonSpaceRun(str, i) ==
    IF i <= Len(str) /\ ~IsSpace(str[i]) THEN NonSpaceRun(str, i + 1) ELSE i - 1

\* the end of the match of literal lit followed by \S+ at place i; 0 for
\* no match
LiteralThenRun(str, i, lit) ==
    IF LiteralAt(str, i, lit) /\ NonSpaceRun(str, i + Len(lit)) >= i + Len(lit)
       THEN NonSpaceRun(str, i + Len(lit)) ELSE 0

\* URL_PATTERN = http\S+|www\.\S+  (transform_clean.py:13)
UrlPatternEnd(str, i) ==
    IF LiteralThenRun(str, i, <<"h", "t", "t", "p">>) # 0
       THEN LiteralThenRun(str, i, <<"h", "t", "t", "p">>)
       ELSE LiteralThenRun(str, i, <<"w", "w", "w", ".">>)

\* https?://\S+  (sentiment.py:28)
HttpUrlEnd(str, i) ==
    IF LiteralThenRun(str, i, <<"h", "t", "t", "p", "s", ":", "/", "/">>) # 0
       THEN LiteralThenRun(str, i, <<"h", "t", "t", "p", "s", ":", "/", "/">>)
       ELSE LiteralThenRun(str, i, <<"h", "t", "t", "p", ":", "/", "/">>)

\* pattern.sub("", str) from place i on: the leftmost matches are dropped
RECURSIVE SubUrlPattern(_, _)
SubUrlPattern(str, i) ==
    IF i > Len(str) THEN <<>>
    ELSE IF UrlPatternEnd(str, i) # 0 THEN SubUrlPattern(str, UrlPatternEnd(str, i) + 1)
    ELSE <<str[i]>> \o SubUrlPattern(str, i + 1)

RECURSIVE SubHttpUrl(_, _)
SubHttpUrl(str, i) ==
    IF i > Len(str) THEN <<>>
    ELSE IF HttpUrlEnd(str, i) # 0 THEN SubHttpUrl(str, HttpUrlEnd(str, i) + 1)
    ELSE <<str[i]>> \o SubHttpUrl(str, i + 1)

\* NON_ALPHANUM = [^a-zA-Z0-9\s] -> " "  (transform_clean.py:14, 24)
SubNonAlphanum(str) ==
    [i \in 1..Len(str) |->
        IF str[i] \in LowerChars \cup UpperChars \cup Digits \/ IsSpace(str[i])
           THEN str[i] ELSE " "]

\* the backquote character, which a string of this module cannot hold
Backquote == "backquote"

\* the markdown characters * _ backquote > # ~ [ ] ( ) -> " "  (sentiment.py:31)
SubMarkdown(str) ==
    [i \in 1..Len(str) |->
        IF str[i] \in {"*", "_", Backquote, ">", "#", "~", "[", "]", "(", ")"}
           THEN " " ELSE str[i]]

\* [^a-z0-9\s] -> " "  (sentiment.py:34)
SubNonLowerAlphanum(str) ==
    [i \in 1..Len(str) |->
        IF str[i] \in LowerChars \cup Digits \/ IsSpace(str[i]) THEN str[i] ELSE " "]

\* \s+ -> " "
RECURSIVE CollapseSpaces(_)
CollapseSpaces(str) ==
    IF str = <<>> THEN <<>>
    ELSE IF IsSpace(Head(str)) THEN <<" ">> \o CollapseSpaces(LStrip(str))
    ELSE <<Head(str)>> \o CollapseSpaces(Tail(str))

\* transform_clean.clean_text
clean_text(t) ==
    IF t.type # "str" THEN <<>>
    ELSE Strip(CollapseSpaces(SubNonAlphanum(LowerStr(SubUrlPattern(Strip(t.val), 1)))))

\* sentiment.clean_text
sentiment_clean_text(t) ==
    IF t.type # "str" THEN <<>>
    ELSE Strip(CollapseSpaces(SubNonLowerAlphanum(SubMarkdown(
             SubHttpUrl(LowerStr(t.val), 1)))))

Fragments ==
    { <<"h", "t", "t", "p">>, <<"H", "t", "t", "p">>, <<"s">>, <<":", "/", "/">>,
      <<"w", "w", "w", ".">>, <<" ">>, <<"a">>, <<"*">> }

RECURSIVE Concat(_)
Concat(parts) == IF parts = <<>> THEN <<>> ELSE Head(parts) \o Concat(Tail(parts))

Str(val) == [type |-> "str", val |-> val]

CleanInit ==
    /\ \/ text = [type |-> "NoneType", val |-> <<>>]
       \/ \E n \in 0..MaxFrags : \E parts \in [1..n -> Fragments] :
              text = Str(Concat(parts))
    /\ impl \in {"transform_clean", "sentiment"}
    /\ cleaned = <<>>
    /\ previous = <<>>
    /\ calls = 0

\* what the next call is given: the input, then the result of the call before
Argument == IF calls = 0 THEN text ELSE Str(cleaned)

CleanTransform ==
    /\ impl = "transform_clean"
    /\ calls < 2
    /\ cleaned' = clean_text(Argument)
    /\ previous' = cleaned
    /\ calls' = calls + 1
    /\ UNCHANGED <<text, impl, scanVars, flatVars, fetchVars>>

CleanSentiment ==
    /\ impl = "sentiment"
    /\ calls < 2
    /\ cleaned' = sentiment_clean_text(Argument)
    /\ previous' = cleaned
    /\ calls' = calls + 1
    /\ UNCHANGED <<text, impl, scanVars, flatVars, fetchVars>>

InitClean == CleanInit /\ ScanIdle /\ FlatIdle /\ FetchIdle
NextClean == CleanTransform \/ CleanSentiment
SpecClean == InitClean /\ [][NextClean]_vars

\* C6 as claimed: for both implementations, cleaning the cleaned text gives
\* the cleaned text again.
CleanTextIdempotent == calls = 2 => cleaned = previous

\* the half of C6 that holds: sentiment.clean_text is idempotent
SentimentCleanTextIdempotent == (impl = "sentiment" /\ calls = 2) => cleaned = previous

====
